---- MODULE Spec2Model ----
(***************************************************************************)
(* ILI9341 LCD command encoder (src/src/lib.rs).                           *)
(*                                                                         *)
(* Controller<T: Interface> owns one bus handle and has no other field.    *)
(* Every public method makes one call on the Interface trait.  The trait   *)
(* is implemented outside the crate, so the bus is modelled as a recording *)
(* environment: it logs each call it receives, and either completes        *)
(* (filling a read buffer with bytes of its choosing) or fails.  The trait *)
(* methods return (), so the only failure a bus can signal is a panic.     *)
(***************************************************************************)
EXTENDS Integers, Sequences, FiniteSets

VARIABLES
    iface,   \* Controller.iface: the bus handle the encoder owns
    calls,   \* the caller's invocations, in program order: [op, args]
    log,     \* what the bus received, in arrival order: [seq, kind, cmd, data]
    outs,    \* what the bus did on each invocation: [fail, payload, resp]
    rets     \* what each invocation gave back to the caller: [outcome, value]

vars == <<iface, calls, log, outs, rets>>

\* Longest sequence of invocations explored by Spec.
MaxOps == 2

(***************************************************************************)
(* Integer arithmetic as the code writes it.                               *)
(***************************************************************************)
RECURSIVE BitAnd(_, _)
\* a & b on non-negative integers
BitAnd(a, b) ==
    IF a = 0 \/ b = 0 THEN 0
    ELSE (a % 2) * (b % 2) + 2 * BitAnd(a \div 2, b \div 2)

RECURSIVE BitOr(_, _)
\* a | b on non-negative integers
BitOr(a, b) ==
    IF a = 0 THEN b
    ELSE IF b = 0 THEN a
    ELSE (IF a % 2 = 1 \/ b % 2 = 1 THEN 1 ELSE 0) + 2 * BitOr(a \div 2, b \div 2)

\* v >> n
Shr(v, n) == v \div (2 ^ n)

\* (v: u16) << n, n < 16: bits shifted past bit 15 are lost
Shl16(v, n) == (v * (2 ^ n)) % 65536

\* v as u8: truncation to the low 8 bits
AsU8(v) == v % 256

\* v as u16
AsU16(v) == v % 65536

\* [0u8; n], and the Default of a [u8; n]
ZeroBytes(n) == [i \in 1..n |-> 0]

(***************************************************************************)
(* Register snapshot types: Default::default() of each.                    *)
(***************************************************************************)
DisplayIdentification == [raw |-> ZeroBytes(3)]
\* Faulty variant: the status container is one byte short.
DisplayStatus_short == [raw |-> ZeroBytes(3)]

DisplayStatus == [raw |-> ZeroBytes(4)]
DisplayPowerMode == [raw |-> ZeroBytes(1)]
MADCtl == [raw |-> ZeroBytes(1)]
PixelFormat == [raw |-> ZeroBytes(1)]
ImageFormat == [raw |-> ZeroBytes(1)]
SignalMode == [raw |-> ZeroBytes(1)]
SelfDiagnosticResult == [raw |-> ZeroBytes(1)]
MemoryAccessControl == [raw |-> ZeroBytes(1)]
CtrlDisplay == [raw |-> ZeroBytes(1)]

TearingEffect == {"Off", "VBlankOnly", "HAndVBlank"}

(***************************************************************************)
(* The Interface trait.  A call yields the requests the bus received       *)
(* (issued), whether the bus failed and with what payload, and the         *)
(* caller's buffer as the bus left it (buf).                               *)
(***************************************************************************)
OkOut(resp) == [fail |-> FALSE, payload |-> "", resp |-> resp]
PanicOut(p) == [fail |-> TRUE, payload |-> p, resp |-> <<>>]

BusCall(kind, cmd, data) == [kind |-> kind, cmd |-> cmd, data |-> data]

\* A &mut slice keeps its length: the bus overwrites the elements it supplies.
Fill(data, resp) ==
    [i \in 1..Len(data) |-> IF i <= Len(resp) THEN resp[i] ELSE data[i]]

iface_write_parameters(command, data, out) ==
    [issued  |-> <<BusCall("write_parameters", command, data)>>,
     fail    |-> out.fail,
     payload |-> out.payload,
     buf     |-> data]

iface_read_parameters(command, data, out) ==
    [issued  |-> <<BusCall("read_parameters", command, data)>>,
     fail    |-> out.fail,
     payload |-> out.payload,
     buf     |-> Fill(data, out.resp)]

\* The bulk calls carry no command byte: cmd is -1.
iface_write_memory(iterable, out) ==
    [issued  |-> <<BusCall("write_memory", -1, iterable)>>,
     fail    |-> out.fail,
     payload |-> out.payload,
     buf     |-> iterable]

iface_read_memory(data, out) ==
    [issued  |-> <<BusCall("read_memory", -1, data)>>,
     fail    |-> out.fail,
     payload |-> out.payload,
     buf     |-> Fill(data, out.resp)]

(***************************************************************************)
(* Controller: construction and the three private helpers.                 *)
(***************************************************************************)
\* Controller::new(iface)
new(bus) == [iface |-> bus]

\* Faulty variant: a repeated command strobe is coalesced with the one before it.
write_command_coalesce(command, out) ==
    LET r == iface_write_parameters(command, <<>>, out)
        n == Len(log)
    IN  IF n > 0 /\ log[n].kind = "write_parameters" /\ log[n].cmd = command
           /\ log[n].data = <<>>
        THEN [r EXCEPT !.issued = <<>>]
        ELSE r

write_command(command, out) == iface_write_parameters(command, <<>>, out)

write_parameters(command, parameters, out) ==
    iface_write_parameters(command, parameters, out)

\* Faulty variant: a failed read is retried once and the failure is swallowed.
read_parameters_retry(command, parameters, out) ==
    LET r == iface_read_parameters(command, parameters, out)
    IN  IF r.fail
        THEN [r EXCEPT !.issued = r.issued \o r.issued, !.fail = FALSE]
        ELSE r

read_parameters(command, parameters, out) ==
    iface_read_parameters(command, parameters, out)

(***************************************************************************)
(* One invocation of a public method: the caller calls, the bus receives   *)
(* what the method issued, and the method returns value, unless the bus    *)
(* panicked, in which case the panic unwinds through the method.           *)
(***************************************************************************)
Unit == <<>>

Return(r, value) ==
    IF r.fail THEN [outcome |-> "panic", value |-> r.payload]
    ELSE [outcome |-> "ok", value |-> value]

\* The methods take &self and keep no failure state: a caller that catches a
\* panic can invoke the next method, so an invocation is accepted after a
\* failed one as after a successful one.
Ready == Len(calls) < MaxOps

Invoke(op, args, out, r, value) ==
    /\ calls' = Append(calls, [op |-> op, args |-> args])
    /\ outs' = Append(outs, out)
    /\ log' = log \o [k \in 1..Len(r.issued) |->
                        [seq  |-> Len(calls) + 1,
                         kind |-> r.issued[k].kind,
                         cmd  |-> r.issued[k].cmd,
                         data |-> r.issued[k].data]]
    /\ rets' = Append(rets, Return(r, value))
    /\ UNCHANGED iface

(***************************************************************************)
(* The public methods, in source order.                                    *)
(***************************************************************************)
nop(out) ==
    /\ Ready
    /\ Invoke("nop", <<>>, out, write_command(\h00, out), Unit)

software_reset(out) ==
    /\ Ready
    /\ Invoke("software_reset", <<>>, out, write_command(\h01, out), Unit)

read_display_identification(out) ==
    /\ Ready
    /\ LET result == DisplayIdentification
           r == read_parameters(\h04, result.raw, out)
       IN  Invoke("read_display_identification", <<>>, out, r, [raw |-> r.buf])

read_display_status(out) ==
    /\ Ready
    /\ LET result == DisplayStatus
           r == read_parameters(\h09, result.raw, out)
       IN  Invoke("read_display_status", <<>>, out, r, [raw |-> r.buf])

read_display_power_mode(out) ==
    /\ Ready
    /\ LET result == DisplayPowerMode
           r == read_parameters(\h0a, result.raw, out)
       IN  Invoke("read_display_power_mode", <<>>, out, r, [raw |-> r.buf])

read_display_madctl(out) ==
    /\ Ready
    /\ LET result == MADCtl
           r == read_parameters(\h0b, result.raw, out)
       IN  Invoke("read_display_madctl", <<>>, out, r, [raw |-> r.buf])

read_pixel_format(out) ==
    /\ Ready
    /\ LET result == PixelFormat
           r == read_parameters(\h0c, result.raw, out)
       IN  Invoke("read_pixel_format", <<>>, out, r, [raw |-> r.buf])

read_image_format(out) ==
    /\ Ready
    /\ LET result == ImageFormat
           r == read_parameters(\h0d, result.raw, out)
       IN  Invoke("read_image_format", <<>>, out, r, [raw |-> r.buf])

read_signal_mode(out) ==
    /\ Ready
    /\ LET result == SignalMode
           r == read_parameters(\h0e, result.raw, out)
       IN  Invoke("read_signal_mode", <<>>, out, r, [raw |-> r.buf])

read_self_diagnostic_result(out) ==
    /\ Ready
    /\ LET result == SelfDiagnosticResult
           r == read_parameters(\h0f, result.raw, out)
       IN  Invoke("read_self_diagnostic_result", <<>>, out, r, [raw |-> r.buf])

enter_sleep_mode(out) ==
    /\ Ready
    /\ Invoke("enter_sleep_mode", <<>>, out, write_command(\h10, out), Unit)

sleep_out(out) ==
    /\ Ready
    /\ Invoke("sleep_out", <<>>, out, write_command(\h11, out), Unit)

partial_mode_on(out) ==
    /\ Ready
    /\ Invoke("partial_mode_on", <<>>, out, write_command(\h12, out), Unit)

normal_display_mode_on(out) ==
    /\ Ready
    /\ Invoke("normal_display_mode_on", <<>>, out, write_command(\h13, out), Unit)

display_inversion(on, out) ==
    /\ Ready
    /\ LET command == IF on THEN \h21 ELSE \h20
       IN  Invoke("display_inversion", <<on>>, out, write_command(command, out), Unit)

\* Faulty variant: after a software reset the gamma curve is forced to 1.
gamma_set_after_reset(gc, out) ==
    /\ Ready
    /\ LET reset == IF log = <<>> THEN FALSE ELSE log[Len(log)].cmd = \h01
       IN  Invoke("gamma_set", <<gc>>, out,
                  write_parameters(\h26, <<IF reset THEN 1 ELSE gc>>, out), Unit)

gamma_set(gc, out) ==
    /\ Ready
    /\ Invoke("gamma_set", <<gc>>, out, write_parameters(\h26, <<gc>>, out), Unit)

display(on, out) ==
    /\ Ready
    /\ LET command == IF on THEN \h29 ELSE \h28
       IN  Invoke("display", <<on>>, out, write_command(command, out), Unit)

\* Faulty variant: the two bytes of each value are sent least-significant first.
column_address_set_le(sc, ec, out) ==
    /\ Ready
    /\ Invoke("column_address_set", <<sc, ec>>, out,
              write_parameters(\h2a, <<
                  AsU8(BitAnd(sc, \hff)), AsU8(Shr(sc, 8)),
                  AsU8(BitAnd(ec, \hff)), AsU8(Shr(ec, 8))
              >>, out), Unit)

column_address_set(sc, ec, out) ==
    /\ Ready
    /\ Invoke("column_address_set", <<sc, ec>>, out,
              write_parameters(\h2a, <<
                  AsU8(Shr(sc, 8)), AsU8(BitAnd(sc, \hff)),
                  AsU8(Shr(ec, 8)), AsU8(BitAnd(ec, \hff))
              >>, out), Unit)

page_address_set(sp, ep, out) ==
    /\ Ready
    /\ Invoke("page_address_set", <<sp, ep>>, out,
              write_parameters(\h2b, <<
                  AsU8(Shr(sp, 8)), AsU8(BitAnd(sp, \hff)),
                  AsU8(Shr(ep, 8)), AsU8(BitAnd(ep, \hff))
              >>, out), Unit)

memory_write_start(out) ==
    /\ Ready
    /\ Invoke("memory_write_start", <<>>, out, write_command(\h2c, out), Unit)

\* Faulty variant: every table entry is masked to the 6 bits the panel uses.
color_set_masked(data, out) ==
    /\ Ready
    /\ Invoke("color_set", <<data>>, out,
              write_parameters(\h2d, [i \in 1..Len(data) |-> data[i] % 64], out),
              Unit)

color_set(data, out) ==
    /\ Ready
    /\ Invoke("color_set", <<data>>, out, write_parameters(\h2d, data, out), Unit)

memory_read_start(out) ==
    /\ Ready
    /\ Invoke("memory_read_start", <<>>, out, write_command(\h2e, out), Unit)

partial_area(sr, er, out) ==
    /\ Ready
    /\ Invoke("partial_area", <<sr, er>>, out,
              write_parameters(\h30, <<
                  AsU8(Shr(sr, 8)), AsU8(BitAnd(sr, \hff)),
                  AsU8(Shr(er, 8)), AsU8(BitAnd(er, \hff))
              >>, out), Unit)

vertical_scrolling_definition(tfa, vsa, bfa, out) ==
    /\ Ready
    /\ Invoke("vertical_scrolling_definition", <<tfa, vsa, bfa>>, out,
              write_parameters(\h33, <<
                  AsU8(Shr(tfa, 8)), AsU8(BitAnd(tfa, \hff)),
                  AsU8(Shr(vsa, 8)), AsU8(BitAnd(vsa, \hff)),
                  AsU8(Shr(bfa, 8)), AsU8(BitAnd(bfa, \hff))
              >>, out), Unit)

\* Faulty variant: the three modes go through the uniform one-parameter pattern.
tearing_effect_uniform(mode, out) ==
    /\ Ready
    /\ LET r == CASE mode = "VBlankOnly" -> write_parameters(\h35, <<0>>, out)
                  [] mode = "HAndVBlank" -> write_parameters(\h35, <<1>>, out)
                  [] OTHER               -> write_parameters(\h34, <<0>>, out)
       IN  Invoke("tearing_effect", <<mode>>, out, r, Unit)

tearing_effect(mode, out) ==
    /\ Ready
    /\ LET r == CASE mode = "VBlankOnly" -> write_parameters(\h35, <<0>>, out)
                  [] mode = "HAndVBlank" -> write_parameters(\h35, <<1>>, out)
                  [] OTHER               -> write_command(\h34, out)
       IN  Invoke("tearing_effect", <<mode>>, out, r, Unit)

memory_access_control(value, out) ==
    /\ Ready
    /\ Invoke("memory_access_control", <<value>>, out,
              write_parameters(\h36, value.raw, out), Unit)

vertical_scrolling_start_address(vsp, out) ==
    /\ Ready
    /\ Invoke("vertical_scrolling_start_address", <<vsp>>, out,
              write_parameters(\h37, <<
                  AsU8(Shr(vsp, 8)), AsU8(BitAnd(vsp, \hff))
              >>, out), Unit)

\* Faulty variant: the on/off opcodes of the pair are exchanged.
idle_mode_swapped(on, out) ==
    /\ Ready
    /\ LET command == IF on THEN \h38 ELSE \h39
       IN  Invoke("idle_mode", <<on>>, out, write_command(command, out), Unit)

idle_mode(on, out) ==
    /\ Ready
    /\ LET command == IF on THEN \h39 ELSE \h38
       IN  Invoke("idle_mode", <<on>>, out, write_command(command, out), Unit)

pixel_format_set(value, out) ==
    /\ Ready
    /\ Invoke("pixel_format_set", <<value>>, out,
              write_parameters(\h3a, value.raw, out), Unit)

write_memory_continue(out) ==
    /\ Ready
    /\ Invoke("write_memory_continue", <<>>, out, write_command(\h3c, out), Unit)

\* Faulty variant: the method frames the stream itself with a memory-write command.
write_memory_framed(iterable, out) ==
    /\ Ready
    /\ LET c == write_command(\h2c, out)
           r == iface_write_memory(iterable, out)
       IN  Invoke("write_memory", <<iterable>>, out,
                  [r EXCEPT !.issued = c.issued \o r.issued], Unit)

write_memory(iterable, out) ==
    /\ Ready
    /\ Invoke("write_memory", <<iterable>>, out,
              iface_write_memory(iterable, out), Unit)

read_memory_continue(out) ==
    /\ Ready
    /\ Invoke("read_memory_continue", <<>>, out, write_command(\h3e, out), Unit)

\* The caller sees its buffer as the bus left it.
read_memory(data, out) ==
    /\ Ready
    /\ LET r == iface_read_memory(data, out)
       IN  Invoke("read_memory", <<data>>, out, r, r.buf)

set_tear_scanline(sts, out) ==
    /\ Ready
    /\ Invoke("set_tear_scanline", <<sts>>, out,
              write_parameters(\h44, <<
                  AsU8(Shr(sts, 8)), AsU8(BitAnd(sts, \hff))
              >>, out), Unit)

\* Faulty variant: the two bytes are added without shifting the first.
get_scanline_noshift(out) ==
    /\ Ready
    /\ LET result == ZeroBytes(2)
           r == read_parameters(\h45, result, out)
       IN  Invoke("get_scanline", <<>>, out, r,
                  BitOr(AsU16(r.buf[1]), AsU16(r.buf[2])))

get_scanline(out) ==
    /\ Ready
    /\ LET result == ZeroBytes(2)
           r == read_parameters(\h45, result, out)
       IN  Invoke("get_scanline", <<>>, out, r,
                  BitOr(Shl16(AsU16(r.buf[1]), 8), AsU16(r.buf[2])))

write_display_brightness(dbv, out) ==
    /\ Ready
    /\ Invoke("write_display_brightness", <<dbv>>, out,
              write_parameters(\h51, <<dbv>>, out), Unit)

read_display_brightness(out) ==
    /\ Ready
    /\ LET result == ZeroBytes(1)
           r == read_parameters(\h52, result, out)
       IN  Invoke("read_display_brightness", <<>>, out, r, r.buf[1])

write_ctrl_display(value, out) ==
    /\ Ready
    /\ Invoke("write_ctrl_display", <<value>>, out,
              write_parameters(\h53, value.raw, out), Unit)

read_ctrl_display(out) ==
    /\ Ready
    /\ LET result == CtrlDisplay
           r == read_parameters(\h54, result.raw, out)
       IN  Invoke("read_ctrl_display", <<>>, out, r, [raw |-> r.buf])

write_cabc(c, out) ==
    /\ Ready
    /\ Invoke("write_cabc", <<c>>, out, write_parameters(\h55, <<c>>, out), Unit)

read_cabc(out) ==
    /\ Ready
    /\ LET result == ZeroBytes(1)
           r == read_parameters(\h56, result, out)
       IN  Invoke("read_cabc", <<>>, out, r, r.buf[1])

write_cabc_minimum_brightness(cmb, out) ==
    /\ Ready
    /\ Invoke("write_cabc_minimum_brightness", <<cmb>>, out,
              write_parameters(\h5e, <<cmb>>, out), Unit)

read_cabc_minimum_brightness(out) ==
    /\ Ready
    /\ LET result == ZeroBytes(1)
           r == read_parameters(\h5f, result, out)
       IN  Invoke("read_cabc_minimum_brightness", <<>>, out, r, r.buf[1])

read_id1(out) ==
    /\ Ready
    /\ LET result == ZeroBytes(1)
           r == read_parameters(\hda, result, out)
       IN  Invoke("read_id1", <<>>, out, r, r.buf[1])

read_id2(out) ==
    /\ Ready
    /\ LET result == ZeroBytes(1)
           r == read_parameters(\hdb, result, out)
       IN  Invoke("read_id2", <<>>, out, r, r.buf[1])

read_id3(out) ==
    /\ Ready
    /\ LET result == ZeroBytes(1)
           r == read_parameters(\hdc, result, out)
       IN  Invoke("read_id3", <<>>, out, r, r.buf[1])

(***************************************************************************)
(* Inputs.  Spec explores sequences of invocations over a few argument     *)
(* values; SpecEnc explores one invocation on a fresh bus over wide        *)
(* argument ranges: all 256 bytes, all 65536 values of a one-argument      *)
(* 16-bit command, all 65536 byte pairs of a scanline response.            *)
(***************************************************************************)
Payloads == {"bus timeout", "no acknowledge"}
Panics == {PanicOut(p) : p \in Payloads}

ByteSome == {\ha5}
ByteEdge == {\h00, \h01, \h7f, \h80, \hff}
ByteAll == 0..255
U16Some == {\h1234}
U16Edge == {\h0000, \h0001, \h00ff, \h0100, \h1234, \h8000, \hff00, \hffff}
U16All == 0..65535

\* 128-byte colour tables: ramps of several slopes and offsets.
ColorTablesSome == {[i \in 1..128 |-> (2 * i) % 256]}
ColorTables ==
    {[i \in 1..128 |-> (k * i + c) % 256] : k \in {0, 1, 3, 255}, c \in {0, 200}}

\* 32-bit words, as pixel streams and as read buffers.
WordSeqs == {<<>>, <<\h00f800>>, <<\h7fffffff, 0, \h0000ff>>}
WordFills(n) == {[i \in 1..n |-> \h00ff00 + i], [i \in 1..n |-> \h7fffffff]}

WriteOutsSome == {OkOut(<<>>)} \cup {PanicOut("bus timeout")}
WriteOuts == {OkOut(<<>>)} \cup Panics
MemoryOuts(n) == {OkOut(w) : w \in WordFills(n)} \cup {PanicOut("bus timeout")}

\* Bus responses of n bytes.
RespSome(n) == {[i \in 1..n |-> AsU8(b + i)] : b \in ByteSome}
ReadOutsSome(n) == {OkOut(resp) : resp \in RespSome(n)} \cup {PanicOut("bus timeout")}
ReadOuts1 == {OkOut(<<b>>) : b \in ByteAll} \cup Panics
ReadOuts2 == {OkOut(<<b0, b1>>) : b0, b1 \in ByteAll} \cup Panics
ReadOuts3 == {OkOut(<<b0, b1, b2>>) : b0, b1, b2 \in ByteEdge} \cup Panics
ReadOuts4 ==
    {OkOut(<<b0, b1, b2, b3>>) : b0, b1, b2, b3 \in ByteEdge} \cup Panics

Init ==
    /\ iface = new("bus").iface
    /\ calls = <<>>
    /\ log = <<>>
    /\ outs = <<>>
    /\ rets = <<>>

\* A bus that has received nothing yet.
Fresh == calls = <<>>

Next ==
    \/ \E out \in WriteOutsSome : nop(out)
    \/ \E out \in WriteOutsSome : software_reset(out)
    \/ \E out \in WriteOutsSome : enter_sleep_mode(out)
    \/ \E out \in WriteOutsSome : sleep_out(out)
    \/ \E out \in WriteOutsSome : partial_mode_on(out)
    \/ \E out \in WriteOutsSome : normal_display_mode_on(out)
    \/ \E out \in WriteOutsSome : memory_write_start(out)
    \/ \E out \in WriteOutsSome : memory_read_start(out)
    \/ \E out \in WriteOutsSome : write_memory_continue(out)
    \/ \E out \in WriteOutsSome : read_memory_continue(out)
    \/ \E on \in BOOLEAN, out \in WriteOutsSome : display_inversion(on, out)
    \/ \E on \in BOOLEAN, out \in WriteOutsSome : display(on, out)
    \/ \E on \in BOOLEAN, out \in WriteOutsSome : idle_mode(on, out)
    \/ \E b \in ByteSome, out \in WriteOutsSome : gamma_set(b, out)
    \/ \E b \in ByteSome, out \in WriteOutsSome : write_display_brightness(b, out)
    \/ \E b \in ByteSome, out \in WriteOutsSome : write_cabc(b, out)
    \/ \E b \in ByteSome, out \in WriteOutsSome : write_cabc_minimum_brightness(b, out)
    \/ \E b \in ByteSome, out \in WriteOutsSome : memory_access_control([raw |-> <<b>>], out)
    \/ \E b \in ByteSome, out \in WriteOutsSome : pixel_format_set([raw |-> <<b>>], out)
    \/ \E b \in ByteSome, out \in WriteOutsSome : write_ctrl_display([raw |-> <<b>>], out)
    \/ \E data \in ColorTablesSome, out \in WriteOutsSome : color_set(data, out)
    \/ \E s, e \in U16Some, out \in WriteOutsSome : column_address_set(s, e, out)
    \/ \E s, e \in U16Some, out \in WriteOutsSome : page_address_set(s, e, out)
    \/ \E s, e \in U16Some, out \in WriteOutsSome : partial_area(s, e, out)
    \/ \E tfa, vsa, bfa \in U16Some, out \in WriteOutsSome : vertical_scrolling_definition(tfa, vsa, bfa, out)
    \/ \E v \in U16Some, out \in WriteOutsSome : vertical_scrolling_start_address(v, out)
    \/ \E v \in U16Some, out \in WriteOutsSome : set_tear_scanline(v, out)
    \/ \E mode \in TearingEffect, out \in WriteOutsSome : tearing_effect(mode, out)
    \/ \E out \in ReadOutsSome(3) : read_display_identification(out)
    \/ \E out \in ReadOutsSome(4) : read_display_status(out)
    \/ \E out \in ReadOutsSome(1) : read_display_power_mode(out)
    \/ \E out \in ReadOutsSome(1) : read_display_madctl(out)
    \/ \E out \in ReadOutsSome(1) : read_pixel_format(out)
    \/ \E out \in ReadOutsSome(1) : read_image_format(out)
    \/ \E out \in ReadOutsSome(1) : read_signal_mode(out)
    \/ \E out \in ReadOutsSome(1) : read_self_diagnostic_result(out)
    \/ \E out \in ReadOutsSome(1) : read_ctrl_display(out)
    \/ \E out \in ReadOutsSome(1) : read_display_brightness(out)
    \/ \E out \in ReadOutsSome(1) : read_cabc(out)
    \/ \E out \in ReadOutsSome(1) : read_cabc_minimum_brightness(out)
    \/ \E out \in ReadOutsSome(1) : read_id1(out)
    \/ \E out \in ReadOutsSome(1) : read_id2(out)
    \/ \E out \in ReadOutsSome(1) : read_id3(out)
    \/ \E out \in ReadOutsSome(2) : get_scanline(out)
    \/ \E w \in WordSeqs, out \in WriteOutsSome : write_memory(w, out)
    \/ \E data \in WordSeqs : \E out \in MemoryOuts(Len(data)) : read_memory(data, out)

NextEnc ==
    \/ Fresh /\ \E out \in WriteOuts : nop(out)
    \/ Fresh /\ \E out \in WriteOuts : software_reset(out)
    \/ Fresh /\ \E out \in WriteOuts : enter_sleep_mode(out)
    \/ Fresh /\ \E out \in WriteOuts : sleep_out(out)
    \/ Fresh /\ \E out \in WriteOuts : partial_mode_on(out)
    \/ Fresh /\ \E out \in WriteOuts : normal_display_mode_on(out)
    \/ Fresh /\ \E out \in WriteOuts : memory_write_start(out)
    \/ Fresh /\ \E out \in WriteOuts : memory_read_start(out)
    \/ Fresh /\ \E out \in WriteOuts : write_memory_continue(out)
    \/ Fresh /\ \E out \in WriteOuts : read_memory_continue(out)
    \/ Fresh /\ \E on \in BOOLEAN, out \in WriteOuts : display_inversion(on, out)
    \/ Fresh /\ \E on \in BOOLEAN, out \in WriteOuts : display(on, out)
    \/ Fresh /\ \E on \in BOOLEAN, out \in WriteOuts : idle_mode(on, out)
    \/ Fresh /\ \E b \in ByteAll, out \in WriteOuts : gamma_set(b, out)
    \/ Fresh /\ \E b \in ByteAll, out \in WriteOuts : write_display_brightness(b, out)
    \/ Fresh /\ \E b \in ByteAll, out \in WriteOuts : write_cabc(b, out)
    \/ Fresh /\ \E b \in ByteAll, out \in WriteOuts : write_cabc_minimum_brightness(b, out)
    \/ Fresh /\ \E b \in ByteAll, out \in WriteOuts : memory_access_control([raw |-> <<b>>], out)
    \/ Fresh /\ \E b \in ByteAll, out \in WriteOuts : pixel_format_set([raw |-> <<b>>], out)
    \/ Fresh /\ \E b \in ByteAll, out \in WriteOuts : write_ctrl_display([raw |-> <<b>>], out)
    \/ Fresh /\ \E data \in ColorTables, out \in WriteOuts : color_set(data, out)
    \/ Fresh /\ \E s, e \in U16Edge, out \in WriteOuts : column_address_set(s, e, out)
    \/ Fresh /\ \E s, e \in U16Edge, out \in WriteOuts : page_address_set(s, e, out)
    \/ Fresh /\ \E s, e \in U16Edge, out \in WriteOuts : partial_area(s, e, out)
    \/ Fresh /\ \E tfa, vsa, bfa \in U16Edge, out \in WriteOuts : vertical_scrolling_definition(tfa, vsa, bfa, out)
    \/ Fresh /\ \E v \in U16All, out \in WriteOuts : vertical_scrolling_start_address(v, out)
    \/ Fresh /\ \E v \in U16All, out \in WriteOuts : set_tear_scanline(v, out)
    \/ Fresh /\ \E mode \in TearingEffect, out \in WriteOuts : tearing_effect(mode, out)
    \/ Fresh /\ \E out \in ReadOuts3 : read_display_identification(out)
    \/ Fresh /\ \E out \in ReadOuts4 : read_display_status(out)
    \/ Fresh /\ \E out \in ReadOuts1 : read_display_power_mode(out)
    \/ Fresh /\ \E out \in ReadOuts1 : read_display_madctl(out)
    \/ Fresh /\ \E out \in ReadOuts1 : read_pixel_format(out)
    \/ Fresh /\ \E out \in ReadOuts1 : read_image_format(out)
    \/ Fresh /\ \E out \in ReadOuts1 : read_signal_mode(out)
    \/ Fresh /\ \E out \in ReadOuts1 : read_self_diagnostic_result(out)
    \/ Fresh /\ \E out \in ReadOuts1 : read_ctrl_display(out)
    \/ Fresh /\ \E out \in ReadOuts1 : read_display_brightness(out)
    \/ Fresh /\ \E out \in ReadOuts1 : read_cabc(out)
    \/ Fresh /\ \E out \in ReadOuts1 : read_cabc_minimum_brightness(out)
    \/ Fresh /\ \E out \in ReadOuts1 : read_id1(out)
    \/ Fresh /\ \E out \in ReadOuts1 : read_id2(out)
    \/ Fresh /\ \E out \in ReadOuts1 : read_id3(out)
    \/ Fresh /\ \E out \in ReadOuts2 : get_scanline(out)
    \/ Fresh /\ \E w \in WordSeqs, out \in WriteOuts : write_memory(w, out)
    \/ Fresh /\ \E data \in WordSeqs : \E out \in MemoryOuts(Len(data)) : read_memory(data, out)

Spec == Init /\ [][Next]_vars

SpecEnc == Init /\ [][NextEnc]_vars

(***************************************************************************)
(* What the properties below are stated against: the wire-level command    *)
(* table of the specification, written out independently of the methods.   *)
(***************************************************************************)
W(cmd, data) == [kind |-> "write_parameters", cmd |-> cmd, data |-> data]
R(cmd, buf) == [kind |-> "read_parameters", cmd |-> cmd, data |-> buf]

\* The bus calls that arrived during invocation i, in arrival order.
Received(i) ==
    LET s == SelectSeq(log, LAMBDA e : e.seq = i)
    IN  [k \in 1..Len(s) |-> [kind |-> s[k].kind, cmd |-> s[k].cmd, data |-> s[k].data]]

Invocations == 1..Len(calls)

BareOpcode ==
    [nop |-> 0, software_reset |-> 1, enter_sleep_mode |-> 16, sleep_out |-> 17,
     partial_mode_on |-> 18, normal_display_mode_on |-> 19,
     memory_write_start |-> 44, memory_read_start |-> 46,
     write_memory_continue |-> 60, read_memory_continue |-> 62]

PairBase == [display_inversion |-> 32, display |-> 40, idle_mode |-> 56]

ByteWriteOpcode ==
    [gamma_set |-> 38, write_display_brightness |-> 81, write_cabc |-> 85,
     write_cabc_minimum_brightness |-> 94]

TypedWriteOpcode ==
    [memory_access_control |-> 54, pixel_format_set |-> 58, write_ctrl_display |-> 83]

WordWriteOpcode ==
    [column_address_set |-> 42, page_address_set |-> 43, partial_area |-> 48,
     vertical_scrolling_definition |-> 51, vertical_scrolling_start_address |-> 55,
     set_tear_scanline |-> 68]

SnapshotOpcode ==
    [read_display_identification |-> 4, read_display_status |-> 9,
     read_display_power_mode |-> 10, read_display_madctl |-> 11,
     read_pixel_format |-> 12, read_image_format |-> 13, read_signal_mode |-> 14,
     read_self_diagnostic_result |-> 15, read_ctrl_display |-> 84]

SnapshotLength ==
    [read_display_identification |-> 3, read_display_status |-> 4,
     read_display_power_mode |-> 1, read_display_madctl |-> 1,
     read_pixel_format |-> 1, read_image_format |-> 1, read_signal_mode |-> 1,
     read_self_diagnostic_result |-> 1, read_ctrl_display |-> 1]

ScalarOpcode ==
    [read_display_brightness |-> 82, read_cabc |-> 86,
     read_cabc_minimum_brightness |-> 95, read_id1 |-> 218, read_id2 |-> 219,
     read_id3 |-> 220]

\* The documented opcode of a framed invocation.
DocOpcode(c) ==
    CASE c.op \in DOMAIN BareOpcode       -> BareOpcode[c.op]
      [] c.op \in DOMAIN PairBase         -> PairBase[c.op] + (IF c.args[1] THEN 1 ELSE 0)
      [] c.op \in DOMAIN ByteWriteOpcode  -> ByteWriteOpcode[c.op]
      [] c.op \in DOMAIN TypedWriteOpcode -> TypedWriteOpcode[c.op]
      [] c.op \in DOMAIN WordWriteOpcode  -> WordWriteOpcode[c.op]
      [] c.op \in DOMAIN SnapshotOpcode   -> SnapshotOpcode[c.op]
      [] c.op \in DOMAIN ScalarOpcode     -> ScalarOpcode[c.op]
      [] c.op = "color_set"               -> 45
      [] c.op = "tearing_effect"          -> IF c.args[1] = "Off" THEN 52 ELSE 53
      [] c.op = "get_scanline"            -> 69

DocKind(c) ==
    CASE c.op = "write_memory" -> "write_memory"
      [] c.op = "read_memory"  -> "read_memory"
      [] c.op \in DOMAIN SnapshotOpcode \cup DOMAIN ScalarOpcode \cup {"get_scanline"}
                               -> "read_parameters"
      [] OTHER                 -> "write_parameters"

\* A 16-bit value as two bytes, most significant first.
BigEndian(v) == <<v \div 256, v % 256>>

RECURSIVE BigEndianAll(_)
BigEndianAll(vs) ==
    IF vs = <<>> THEN <<>> ELSE BigEndian(Head(vs)) \o BigEndianAll(Tail(vs))

----
\* C1: the bus observes exactly one transaction per operation, in invocation
\* order, nothing reordered, coalesced, dropped or added; sleep_out() then
\* display(true) yields exactly (0x11, []) then (0x29, []).
OneTransactionPerOperationInOrder ==
    /\ Len(log) = Len(calls)
    /\ \A i \in 1..Len(log) :
         /\ log[i].seq = i
         /\ log[i].kind = DocKind(calls[i])
         /\ log[i].kind \in {"write_parameters", "read_parameters"}
               => log[i].cmd = DocOpcode(calls[i])
    /\ ( /\ Len(calls) = 2
         /\ calls[1].op = "sleep_out"
         /\ calls[2].op = "display"
         /\ calls[2].args = <<TRUE>> )
       => ( /\ Received(1) = <<W(17, <<>>)>>
            /\ Received(2) = <<W(41, <<>>)>>
            /\ Len(log) = 2 )

SleepOutThenDisplayOn ==
    /\ Len(calls) = 2
    /\ calls[1].op = "sleep_out"
    /\ calls[2].op = "display"
    /\ calls[2].args = <<TRUE>>
    /\ rets[2].outcome = "ok"

\* C2: every parameterless command issues a single write_parameters call with
\* the documented opcode and no data; the boolean pairs use base opcode for
\* false and base + 1 for true.
BareCommandsEncoded ==
    \A i \in Invocations :
        /\ calls[i].op \in DOMAIN BareOpcode
              => Received(i) = <<W(BareOpcode[calls[i].op], <<>>)>>
        /\ (calls[i].op = "display_inversion" /\ calls[i].args = <<FALSE>>)
              => Received(i) = <<W(32, <<>>)>>
        /\ (calls[i].op = "display_inversion" /\ calls[i].args = <<TRUE>>)
              => Received(i) = <<W(33, <<>>)>>
        /\ (calls[i].op = "display" /\ calls[i].args = <<FALSE>>)
              => Received(i) = <<W(40, <<>>)>>
        /\ (calls[i].op = "display" /\ calls[i].args = <<TRUE>>)
              => Received(i) = <<W(41, <<>>)>>
        /\ (calls[i].op = "idle_mode" /\ calls[i].args = <<FALSE>>)
              => Received(i) = <<W(56, <<>>)>>
        /\ (calls[i].op = "idle_mode" /\ calls[i].args = <<TRUE>>)
              => Received(i) = <<W(57, <<>>)>>

IdleModeOnThenReadContinue ==
    /\ Len(calls) = 2
    /\ calls[1].op = "idle_mode"
    /\ calls[1].args = <<TRUE>>
    /\ calls[2].op = "read_memory_continue"
    /\ Len(log) = 2

\* C3: each 16-bit-parameter operation issues one write_parameters call whose
\* data is every argument split most significant byte first, in argument
\* order, with every byte in 0..255.
WordParametersBigEndian ==
    \A i \in Invocations :
        calls[i].op \in DOMAIN WordWriteOpcode =>
            /\ Received(i) =
                 <<W(WordWriteOpcode[calls[i].op], BigEndianAll(calls[i].args))>>
            /\ Len(Received(i)[1].data) = 2 * Len(calls[i].args)
            /\ \A k \in 1..Len(Received(i)[1].data) :
                 Received(i)[1].data[k] \in 0..255
            /\ calls[i].op = "column_address_set" =>
                 Received(i)[1].data =
                    <<calls[i].args[1] \div 256, calls[i].args[1] % 256,
                      calls[i].args[2] \div 256, calls[i].args[2] % 256>>
            /\ calls[i].op = "vertical_scrolling_definition" =>
                 Len(Received(i)[1].data) = 6
            /\ calls[i].op \in {"vertical_scrolling_start_address", "set_tear_scanline"} =>
                 Len(Received(i)[1].data) = 2

ColumnAddressSetMixedBytes ==
    /\ Len(calls) = 1
    /\ calls[1].op = "column_address_set"
    /\ calls[1].args = <<4660, 65280>>
    /\ log[1].data = <<18, 52, 255, 0>>

\* C4: tearing_effect sends Off as 0x34 with no parameter byte, VBlankOnly as
\* 0x35 with [0], HAndVBlank as 0x35 with [1]; never 0x34 with a parameter
\* byte nor 0x35 without one.
TearingEffectEncoded ==
    \A i \in Invocations :
        calls[i].op = "tearing_effect" =>
            /\ calls[i].args = <<"Off">> => Received(i) = <<W(52, <<>>)>>
            /\ calls[i].args = <<"VBlankOnly">> => Received(i) = <<W(53, <<0>>)>>
            /\ calls[i].args = <<"HAndVBlank">> => Received(i) = <<W(53, <<1>>)>>
            /\ \A k \in 1..Len(Received(i)) :
                 /\ ~(Received(i)[k].cmd = 52 /\ Received(i)[k].data # <<>>)
                 /\ ~(Received(i)[k].cmd = 53 /\ Received(i)[k].data = <<>>)

TearingOffAfterTearingOn ==
    /\ Len(calls) = 2
    /\ calls[1].op = "tearing_effect"
    /\ calls[1].args = <<"HAndVBlank">>
    /\ calls[2].op = "tearing_effect"
    /\ calls[2].args = <<"Off">>
    /\ Len(log) = 2

\* C5: each register-snapshot read issues exactly one read_parameters call at
\* the documented opcode with an all-zero buffer of the documented length, and
\* returns exactly the bytes the bus placed in that buffer.
SnapshotReadsVerbatim ==
    \A i \in Invocations :
        calls[i].op \in DOMAIN SnapshotOpcode =>
            /\ Received(i) =
                 <<R(SnapshotOpcode[calls[i].op],
                     [k \in 1..SnapshotLength[calls[i].op] |-> 0])>>
            /\ ~outs[i].fail =>
                 /\ rets[i].outcome = "ok"
                 /\ rets[i].value.raw = outs[i].resp
                 /\ Len(rets[i].value.raw) = SnapshotLength[calls[i].op]

DisplayStatusRead ==
    /\ Len(calls) = 1
    /\ calls[1].op = "read_display_status"
    /\ outs[1].resp = <<128, 1, 255, 127>>
    /\ rets[1].outcome = "ok"
    /\ rets[1].value.raw = <<128, 1, 255, 127>>

\* C6: get_scanline issues one 2-byte read at 0x45 and returns b0*256 + b1 for
\* the bytes b0, b1 the bus supplies; the one-byte scalar reads issue one
\* 1-byte read at their opcode and return the supplied byte unchanged.
ScalarReadsReassembled ==
    \A i \in Invocations :
        /\ calls[i].op = "get_scanline" =>
             /\ Received(i) = <<R(69, <<0, 0>>)>>
             /\ ~outs[i].fail =>
                  /\ rets[i].outcome = "ok"
                  /\ rets[i].value = outs[i].resp[1] * 256 + outs[i].resp[2]
                  /\ rets[i].value \in 0..65535
        /\ calls[i].op \in DOMAIN ScalarOpcode =>
             /\ Received(i) = <<R(ScalarOpcode[calls[i].op], <<0>>)>>
             /\ ~outs[i].fail =>
                  /\ rets[i].outcome = "ok"
                  /\ rets[i].value = outs[i].resp[1]

ScanlineRead1234 ==
    /\ Len(calls) = 1
    /\ calls[1].op = "get_scanline"
    /\ outs[1].resp = <<18, 52>>
    /\ rets[1] = [outcome |-> "ok", value |-> 4660]

\* C7: every write that carries caller data forwards it verbatim in one
\* write_parameters call at the documented opcode: the 128 bytes of color_set,
\* the one byte of the byte writes, the raw byte of the typed writes.
CallerDataForwardedVerbatim ==
    \A i \in Invocations :
        /\ calls[i].op = "color_set" =>
             /\ Received(i) = <<W(45, calls[i].args[1])>>
             /\ Len(Received(i)[1].data) = 128
             /\ \A k \in 1..128 : Received(i)[1].data[k] = calls[i].args[1][k]
        /\ calls[i].op \in DOMAIN ByteWriteOpcode =>
             Received(i) = <<W(ByteWriteOpcode[calls[i].op], <<calls[i].args[1]>>)>>
        /\ calls[i].op \in DOMAIN TypedWriteOpcode =>
             Received(i) = <<W(TypedWriteOpcode[calls[i].op], calls[i].args[1].raw)>>

ColorSetRampSent ==
    /\ Len(calls) = 1
    /\ calls[1].op = "color_set"
    /\ calls[1].args[1][1] = 203
    /\ calls[1].args[1][128] = 72
    /\ log[1].data[128] = 72
    /\ rets[1].outcome = "ok"

\* C8: a failure signalled by the bus reaches the caller of that operation
\* unmodified; the failed bus call is issued exactly once and no further bus
\* call follows it within the operation.
BusFailurePropagates ==
    \A i \in Invocations :
        outs[i].fail =>
            /\ Len(Received(i)) = 1
            /\ rets[i].outcome = "panic"
            /\ rets[i].value = outs[i].payload
            /\ Received(i)[1].kind = DocKind(calls[i])

ReadFailsAfterWrite ==
    /\ Len(calls) = 2
    /\ calls[2].op = "read_display_status"
    /\ ~outs[1].fail
    /\ outs[2].fail
    /\ rets[2].outcome = "panic"

\* C9: write_memory and read_memory each make exactly one bus write_memory /
\* read_memory call with the caller's words or buffer unchanged and no
\* write_parameters or read_parameters call, and are accepted in every state,
\* whether or not a memory start or continue command came before.
BulkTransferUnframed ==
    /\ \A i \in Invocations :
         /\ calls[i].op = "write_memory" =>
              Received(i) = <<[kind |-> "write_memory", cmd |-> -1,
                               data |-> calls[i].args[1]]>>
         /\ calls[i].op = "read_memory" =>
              /\ Received(i) = <<[kind |-> "read_memory", cmd |-> -1,
                                  data |-> calls[i].args[1]]>>
              /\ ~outs[i].fail => rets[i].value = outs[i].resp
    /\ Ready =>
         /\ ENABLED write_memory(<<63488>>, OkOut(<<>>))
         /\ ENABLED read_memory(<<0, 0>>, OkOut(<<5, 6>>))

BulkTransferWithoutStart ==
    /\ Len(calls) = 2
    /\ calls[1].op = "write_memory"
    /\ calls[1].args[1] # <<>>
    /\ calls[2].op = "read_memory"
    /\ calls[2].args[1] # <<>>
    /\ rets[2].outcome = "ok"
    /\ Len(log) = 2

\* What the command table and the encoding patterns say an invocation puts
\* on the bus and gives back, as a function of the operation, its arguments
\* and the bus's outcome alone.
DocData(c) ==
    CASE c.op \in DOMAIN BareOpcode \cup DOMAIN PairBase -> <<>>
      [] c.op \in DOMAIN ByteWriteOpcode  -> <<c.args[1]>>
      [] c.op \in DOMAIN TypedWriteOpcode -> c.args[1].raw
      [] c.op \in DOMAIN WordWriteOpcode  -> BigEndianAll(c.args)
      [] c.op \in DOMAIN SnapshotOpcode   -> [k \in 1..SnapshotLength[c.op] |-> 0]
      [] c.op \in DOMAIN ScalarOpcode     -> <<0>>
      [] c.op = "get_scanline"            -> <<0, 0>>
      [] c.op = "color_set"               -> c.args[1]
      [] c.op = "tearing_effect"          ->
            IF c.args[1] = "Off" THEN <<>>
            ELSE IF c.args[1] = "VBlankOnly" THEN <<0>> ELSE <<1>>
      [] c.op \in {"write_memory", "read_memory"} -> c.args[1]

DocTransaction(c) ==
    [kind |-> DocKind(c),
     cmd  |-> IF c.op \in {"write_memory", "read_memory"} THEN -1 ELSE DocOpcode(c),
     data |-> DocData(c)]

DocValue(c, out) ==
    CASE c.op \in DOMAIN SnapshotOpcode -> [raw |-> out.resp]
      [] c.op \in DOMAIN ScalarOpcode   -> out.resp[1]
      [] c.op = "get_scanline"          -> out.resp[1] * 256 + out.resp[2]
      [] c.op = "read_memory"           -> out.resp
      [] OTHER                          -> <<>>

\* C10: what an operation puts on the bus, and what it returns for a given bus
\* response, depends only on the operation and its arguments, never on what
\* was invoked before: at every position of every sequence, after any
\* predecessor (successful or failed) or none, every operation emits the
\* transaction and returns the value fixed by its arguments and the bus's
\* outcome; equal invocations agree; no operation changes the state the
\* encoder holds.
HistoryIndependent ==
    /\ iface = "bus"
    /\ \A i \in Invocations :
         /\ Received(i) = <<DocTransaction(calls[i])>>
         /\ rets[i].outcome = (IF outs[i].fail THEN "panic" ELSE "ok")
         /\ rets[i].value = (IF outs[i].fail THEN outs[i].payload
                             ELSE DocValue(calls[i], outs[i]))
    /\ \A i, j \in Invocations :
         (calls[i].op = calls[j].op /\ calls[i].args = calls[j].args) =>
             /\ Received(i) = Received(j)
             /\ outs[i] = outs[j] => rets[i] = rets[j]

DisplayOnWhileAsleep ==
    /\ Len(calls) = 2
    /\ calls[1].op = "enter_sleep_mode"
    /\ calls[2].op = "display"
    /\ calls[2].args = <<TRUE>>
    /\ rets[2].outcome = "ok"

====
